---- MODULE Spec2Model ----
(***************************************************************************)
(* ContentCurator: the asynchronous job core.                              *)
(*                                                                         *)
(*  - the Job record store and the two background orchestrators            *)
(*    (routers/ingestion.py run_topic_ingestion_job, routers/research.py   *)
(*    run_research_job) with the job endpoints of routers/jobs.py;         *)
(*  - the WebSocket connection registry (services/websocket_manager.py)    *)
(*    with the subscription handlers of routers/websocket.py.              *)
(*                                                                         *)
(* Every action is one synchronous block of the asyncio event loop: it     *)
(* runs from one suspension point (an await that really yields) or one     *)
(* database commit to the next.                                            *)
(***************************************************************************)
EXTENDS Integers, Sequences, FiniteSets, TLC

\* ------------------------------------------------------------------ bounds
MaxJobs == 1
MaxItems == 1
MaxConns == 3
MaxCalls == 1
MaxRegJobs == 1
MaxCands == 2
MaxArticles == 3

JobIds == 1..MaxJobs
Conns == 1..MaxConns
CallIds == 1..MaxCalls
RegJobs == 1..MaxRegJobs
\* run 0 is the call of the synchronous endpoint POST /ingest/topic, run j
\* the call made by the background task of job j
RunIds == 0..MaxJobs
ArticleIds == 1..MaxArticles
\* the unordered pairs of articles, and the (source, target) pairs of a row
Pairs == {p \in SUBSET ArticleIds : Cardinality(p) = 2}
Links == {l \in ArticleIds \X ArticleIds : l[1] # l[2]}

VARIABLES
    jobs,               \* the jobs table: job id -> persisted Job row
    nextJobId,          \* the next value of the jobs.id sequence
    task,               \* job id -> the background task scheduled for it
    tavily_key,         \* settings.TAVILY_API_KEY is configured
    response,           \* the last response of a job endpoint
    notifyCalls,        \* job id -> invocations of manager.send_job_progress
    all_connections,    \* ConnectionManager.all_connections
    active_connections, \* ConnectionManager.active_connections (key absent: NoSet)
    handler,            \* connection -> its subscription handler coroutine
    disconnected,       \* connections for which disconnect(conn, ..) has returned
    sendRaised,         \* connections on which a returned send call has raised
    calls,              \* call id -> a send_job_update / broadcast invocation
    outcome,            \* what the finished invocations did
    ncalls,             \* invocations started so far
    tracker,            \* the JobTracker.update_job invocation
    articles,           \* the articles table: the stored URLs (unique)
    run,                \* run id -> a TopicIngestionService.ingest_topic call
    embedded,           \* the articles that have a row in embeddings
    similarity,         \* the cosine similarity of every two embeddings
    connections,        \* the connections table: <<source, target>> -> rows
    linkRun,            \* the last compute_connections_task run
    retry,              \* a _retry_with_backoff call
    research            \* a ResearchService.research_topic call

jobVars == <<jobs, nextJobId, task, tavily_key, response, notifyCalls>>
regVars == <<all_connections, active_connections, handler,
             disconnected, sendRaised, calls, outcome, ncalls>>
ingestVars == <<articles, run>>
linkVars == <<embedded, similarity, connections, linkRun>>
stageVars == <<retry, research>>
otherVars == <<tracker, ingestVars, linkVars, stageVars>>
vars == <<jobs, nextJobId, task, tavily_key, response, notifyCalls,
          all_connections, active_connections, handler,
          disconnected, sendRaised, calls, outcome, ncalls,
          tracker, articles, run, embedded, similarity, connections, linkRun,
          retry, research>>

\* ------------------------------------------------------------ job records
None == "None"
Terminal == {"completed", "failed"}

\* Job.progress of a freshly inserted row (the Job model is not in src/).
JobDefaultProgress == 0

\* Job(job_type=.., status="pending", total_items=.., parameters=..)
NewJob(job_type) ==
    [job_type |-> job_type, status |-> "pending", progress |-> JobDefaultProgress,
     processed_items |-> 0, created_items |-> 0,
     result |-> << >>, error_message |-> None]

\* created, errors: the counts of the result the task holds; logged: the
\* failures of its stages that were caught inside the stage and only logged;
\* started: the task found its job and set job.started_at
NoTask == [pc |-> "none", kind |-> "none", created |-> 0, errors |-> 0,
           logged |-> 0, started |-> FALSE]

\* a variant that resets the progress and forgets the status
MarkRunning_SkipStatus(job) == [job EXCEPT !.progress = 0]
\* job.status = "running"; job.started_at = now; job.progress = 0
MarkRunning(job) == [job EXCEPT !.status = "running", !.progress = 0]

ProgressAfterIngestion == 70
ProgressAfterEmbeddings == 85
\* a variant whose last checkpoint repeats the value of the first
ProgressAfterConnections_CopyPaste == ProgressAfterIngestion
ProgressAfterConnections == 95
ProgressCompleted == 100

\* a variant that stores the outcome and forgets the status
MarkCompleted_KeepsStatus(job, processed, created, errors) ==
    [job EXCEPT !.progress = ProgressCompleted,
                !.processed_items = processed, !.created_items = created,
                !.result = <<[created |-> created, errors |-> errors]>>]
\* job.status = "completed"; progress = 100; counters and result set
MarkCompleted(job, processed, created, errors) ==
    [job EXCEPT !.status = "completed", !.progress = ProgressCompleted,
                !.processed_items = processed, !.created_items = created,
                !.result = <<[created |-> created, errors |-> errors]>>]

\* a variant that also stores a result with the error
MarkFailed_WithResult(job, msg) ==
    [job EXCEPT !.status = "failed", !.error_message = msg,
                !.result = <<[created |-> 0, errors |-> 1]>>]
\* job.status = "failed"; job.error_message = str(e)
MarkFailed(job, msg) == [job EXCEPT !.status = "failed", !.error_message = msg]

RowExists(j) == j \in DOMAIN jobs
DeleteRow(j) == [i \in (DOMAIN jobs) \ {j} |-> jobs[i]]
InsertRow(j, row) == [i \in (DOMAIN jobs) \cup {j} |-> IF i = j THEN row ELSE jobs[i]]

\* ------------------------------------------------------ job creation (POST)
CreateJob(job_type) ==
    /\ nextJobId <= MaxJobs
    /\ jobs' = InsertRow(nextJobId, NewJob(job_type))
    /\ task' = [task EXCEPT ![nextJobId] =
                    [NoTask EXCEPT !.pc = "scheduled", !.kind = job_type]]
    /\ nextJobId' = nextJobId + 1
    /\ response' = [op |-> "create", id |-> nextJobId, code |-> 200, ids |-> {nextJobId}]
    /\ UNCHANGED <<tavily_key, notifyCalls>>

\* POST /ingest/topic/async
ingest_topic_async == CreateJob("topic_ingestion") /\ UNCHANGED <<regVars, otherVars>>

\* POST /research/topic
research_topic == CreateJob("topic_research") /\ UNCHANGED <<regVars, otherVars>>

\* -------------------------------------------------------- job endpoints
\* GET /jobs/{job_id}
get_job(j) ==
    /\ response' = [op |-> "get", id |-> j,
                    code |-> IF RowExists(j) THEN 200 ELSE 404,
                    ids |-> IF RowExists(j) THEN {j} ELSE {}]
    /\ UNCHANGED <<jobs, nextJobId, task, tavily_key, notifyCalls>>
    /\ UNCHANGED <<regVars, otherVars>>

\* GET /jobs/ with the optional status filter (limit above the table size)
list_jobs(status) ==
    /\ response' = [op |-> "list", id |-> 0, code |-> 200,
                    ids |-> {i \in DOMAIN jobs :
                                status = None \/ jobs[i].status = status}]
    /\ UNCHANGED <<jobs, nextJobId, task, tavily_key, notifyCalls>>
    /\ UNCHANGED <<regVars, otherVars>>

\* a variant without the status test
DeleteAllowed_Always(job) == TRUE
\* delete_job refuses exactly the running jobs
DeleteAllowed(job) == job.status # "running"

\* DELETE /jobs/{job_id}
delete_job(j) ==
    /\ IF ~RowExists(j)
         THEN /\ response' = [op |-> "delete", id |-> j, code |-> 404, ids |-> {}]
              /\ jobs' = jobs
         ELSE IF ~DeleteAllowed(jobs[j])
           THEN /\ response' = [op |-> "delete", id |-> j, code |-> 400, ids |-> {}]
                /\ jobs' = jobs
           ELSE /\ response' = [op |-> "delete", id |-> j, code |-> 200, ids |-> {}]
                /\ jobs' = DeleteRow(j)
    /\ UNCHANGED <<nextJobId, task, tavily_key, notifyCalls>>
    /\ UNCHANGED <<regVars, otherVars>>

\* a variant without the "if not job" test: the first use of the missing job
\* raises into the except handler
JobMissing_Unchecked(t) == [t EXCEPT !.pc = "handler"]
\* "if not job: logger.error(..); return"
JobMissing(t) == [t EXCEPT !.pc = "done"]

\* ------------------------------------------- run_topic_ingestion_job
\* lines 175-186: look the job up; return if it is gone; mark it running
run_topic_ingestion_job_start(j) ==
    /\ task[j].pc = "scheduled" /\ task[j].kind = "topic_ingestion"
    /\ IF RowExists(j)
         THEN /\ jobs' = [jobs EXCEPT ![j] = MarkRunning(jobs[j])]
              /\ task' = [task EXCEPT ![j].pc = "ingesting", ![j].started = TRUE]
         ELSE /\ jobs' = jobs
              /\ task' = [task EXCEPT ![j] = JobMissing(@)]
    /\ UNCHANGED <<nextJobId, tavily_key, response, notifyCalls>>
    /\ UNCHANGED <<regVars, otherVars>>

\* line 192 raising: ingest_topic raises ValueError when the key is missing
\* (every later exception is caught inside ingest_topic)
run_topic_ingestion_job_raises(j) ==
    /\ task[j].pc = "ingesting"
    /\ ~tavily_key
    /\ task' = [task EXCEPT ![j].pc = "handler"]
    /\ UNCHANGED <<jobs, nextJobId, tavily_key, response, notifyCalls>>
    /\ UNCHANGED <<regVars, otherVars>>

\* lines 192-208: ingest_topic returned an IngestionResponse; store it
run_topic_ingestion_job_completes(j, processed, created, errors) ==
    /\ task[j].pc = "ingesting"
    /\ tavily_key
    /\ jobs' = [jobs EXCEPT ![j] = MarkCompleted(jobs[j], processed, created, errors)]
    /\ task' = [task EXCEPT ![j].pc = "done", ![j].created = created, ![j].errors = errors]
    /\ UNCHANGED <<nextJobId, tavily_key, response, notifyCalls>>
    /\ UNCHANGED <<regVars, otherVars>>

\* ---------------------------------------------------- run_research_job
\* lines 86-97
run_research_job_start(j) ==
    /\ task[j].pc = "scheduled" /\ task[j].kind = "topic_research"
    /\ IF RowExists(j)
         THEN /\ jobs' = [jobs EXCEPT ![j] = MarkRunning(jobs[j])]
              /\ task' = [task EXCEPT ![j].pc = "researching", ![j].started = TRUE]
         ELSE /\ jobs' = jobs
              /\ task' = [task EXCEPT ![j] = JobMissing(@)]
    /\ UNCHANGED <<nextJobId, tavily_key, response, notifyCalls>>
    /\ UNCHANGED <<regVars, otherVars>>

\* lines 100-111 raising out of the try body (before the 70% checkpoint)
run_research_job_raises(j) ==
    /\ task[j].pc = "researching"
    /\ task' = [task EXCEPT ![j].pc = "handler"]
    /\ UNCHANGED <<jobs, nextJobId, tavily_key, response, notifyCalls>>
    /\ UNCHANGED <<regVars, otherVars>>

\* lines 106-121: research_topic returned; progress 70 is committed
run_research_job_ingested(j, created, errors) ==
    /\ task[j].pc = "researching"
    /\ jobs' = [jobs EXCEPT ![j].progress = ProgressAfterIngestion]
    /\ task' = [task EXCEPT ![j].pc = IF created > 0 THEN "embedding" ELSE "finalize",
                            ![j].created = created, ![j].errors = errors]
    /\ UNCHANGED <<nextJobId, tavily_key, response, notifyCalls>>
    /\ UNCHANGED <<regVars, otherVars>>

\* lines 122-140 and 152-154: embeddings generated and progress 85 committed,
\* or an exception caught and recorded as a post-processing error; swallowed:
\* the articles whose embedding failed inside generate_embeddings_task, which
\* catches the exception, logs it and goes on (embeddings.py lines 117-119)
run_research_job_embeddings(j, raises, swallowed) ==
    /\ task[j].pc = "embedding"
    /\ IF raises
         THEN /\ jobs' = jobs
              /\ task' = [task EXCEPT ![j].pc = "finalize", ![j].errors = @ + 1,
                                      ![j].logged = @ + swallowed]
         ELSE /\ jobs' = [jobs EXCEPT ![j].progress = ProgressAfterEmbeddings]
              /\ task' = [task EXCEPT ![j].pc = "connecting",
                                      ![j].logged = @ + swallowed]
    /\ UNCHANGED <<nextJobId, tavily_key, response, notifyCalls>>
    /\ UNCHANGED <<regVars, otherVars>>

\* lines 142-154: connections computed and progress 95 committed, or the
\* exception caught; swallowed: the computation failed inside
\* compute_connections_task, which catches the exception, logs it and rolls
\* back (embeddings.py lines 206-209)
run_research_job_connections(j, raises, swallowed) ==
    /\ task[j].pc = "connecting"
    /\ IF raises
         THEN /\ jobs' = jobs
              /\ task' = [task EXCEPT ![j].pc = "finalize", ![j].errors = @ + 1]
         ELSE /\ jobs' = [jobs EXCEPT ![j].progress = ProgressAfterConnections]
              /\ task' = [task EXCEPT ![j].pc = "finalize",
                                      ![j].logged = @ + (IF swallowed THEN 1 ELSE 0)]
    /\ UNCHANGED <<nextJobId, tavily_key, response, notifyCalls>>
    /\ UNCHANGED <<regVars, otherVars>>

\* lines 156-172
run_research_job_completes(j) ==
    /\ task[j].pc = "finalize"
    /\ jobs' = [jobs EXCEPT ![j] =
                  MarkCompleted(jobs[j], task[j].created, task[j].created, task[j].errors)]
    /\ task' = [task EXCEPT ![j].pc = "done"]
    /\ UNCHANGED <<nextJobId, tavily_key, response, notifyCalls>>
    /\ UNCHANGED <<regVars, otherVars>>

\* the except Exception handler of both orchestrators: the job is looked up
\* again and, when it is still there, marked failed
run_job_except_handler(j) ==
    /\ task[j].pc = "handler"
    /\ jobs' = IF RowExists(j)
                 THEN [jobs EXCEPT ![j] = MarkFailed(jobs[j], "exception")]
                 ELSE jobs
    /\ task' = [task EXCEPT ![j].pc = "done"]
    /\ UNCHANGED <<nextJobId, tavily_key, response, notifyCalls>>
    /\ UNCHANGED <<regVars, otherVars>>

\* the except handler itself raises (its query or its commit fails, as when
\* the database is unreachable): the exception leaves the task after
\* "finally: db.close()" and the row keeps what was committed last
run_job_except_handler_raises(j) ==
    /\ task[j].pc = "handler"
    /\ task' = [task EXCEPT ![j].pc = "crashed"]
    /\ UNCHANGED <<jobs, nextJobId, tavily_key, response, notifyCalls>>
    /\ UNCHANGED <<regVars, otherVars>>

\* the steps of the background task of job j
TaskStep(j) ==
    \/ run_topic_ingestion_job_start(j)
    \/ run_topic_ingestion_job_raises(j)
    \/ \E created \in 0..MaxItems, errors \in 0..MaxItems :
          run_topic_ingestion_job_completes(j, created + errors, created, errors)
    \/ run_research_job_start(j)
    \/ run_research_job_raises(j)
    \/ \E created \in 0..MaxItems, errors \in 0..MaxItems :
          run_research_job_ingested(j, created, errors)
    \/ \E raises \in BOOLEAN, swallowed \in 0..MaxItems :
          run_research_job_embeddings(j, raises, swallowed)
    \/ \E raises, swallowed \in BOOLEAN :
          run_research_job_connections(j, raises, swallowed)
    \/ run_research_job_completes(j)
    \/ run_job_except_handler(j)
    \/ run_job_except_handler_raises(j)

\* ====================================================================
\* TopicIngestionService (services/topic_ingestion_service.py)
\* ====================================================================
MAX_RETRIES == 3

\* a search result is the URL it carries; NoUrl: it has no "url" or "link"
NoUrl == 0
Urls == 1..MaxCands
\* data.get("results", []): the lists the search can return
Candidates == UNION {[1..n -> Urls \cup {NoUrl}] : n \in 0..MaxCands}

\* An ingest_topic call.  pc: idle, search / fetch / process (suspended in
\* that await), returned (an IngestionResponse), raised; acquisition: how
\* the search stage ended; attempt: the attempt number of the retry loop in
\* progress; cands: search_results; i: the position of the for loop; the
\* counters of the response (errors: len(errors)); log: what happened to
\* each result the loop has dealt with, in order.
NoRun == [pc |-> "idle", acquisition |-> "none", attempt |-> 0,
          cands |-> << >>, i |-> 0,
          articles_processed |-> 0, articles_created |-> 0,
          articles_updated |-> 0, errors |-> 0, log |-> << >>]

\* a variant that skips a stored URL without counting it
ExistingSkipped_NotCounted(st) == [st EXCEPT !.log = Append(@, "updated")]
\* lines 104-108: "if existing: articles_updated += 1; continue"
ExistingSkipped(st) ==
    [st EXCEPT !.articles_updated = @ + 1, !.log = Append(@, "updated")]

\* lines 96-108 and 152-161: the for statement takes the next result; a
\* result without URL is an error, a stored URL counts as updated; the call
\* then suspends in _fetch_content, or returns when the list is used up
RECURSIVE NextResult(_, _)
NextResult(st, stored) ==
    IF st.i >= Len(st.cands)
      THEN [st EXCEPT !.pc = "returned"]
      ELSE LET url == st.cands[st.i + 1]
               at == [st EXCEPT !.i = @ + 1, !.articles_processed = @ + 1,
                                !.attempt = 0]
           IN IF url = NoUrl
                THEN NextResult([at EXCEPT !.errors = @ + 1,
                                           !.log = Append(@, "no_url")], stored)
                ELSE IF url \in stored
                  THEN NextResult(ExistingSkipped(at), stored)
                  ELSE [at EXCEPT !.pc = "fetch"]

\* a variant in which the first failing result ends the loop
ItemFailed_AbortsLoop(st, why, stored) ==
    [st EXCEPT !.errors = @ + 1, !.log = Append(@, why), !.pc = "returned"]
\* lines 111-113 and 147-150: the error is appended and the loop goes on
ItemFailed(st, why, stored) ==
    NextResult([st EXCEPT !.errors = @ + 1, !.log = Append(@, why)], stored)

\* _retry_with_backoff lines 40-73: a retryable failure is retried (after
\* the sleep) unless it happened in the last attempt
Retryable(st, transient) == transient /\ st.attempt < MAX_RETRIES - 1

\* lines 162-171: the outer except turns the exception into a response
AcquisitionFailed(st) ==
    [st EXCEPT !.pc = "returned", !.acquisition = "raised", !.errors = @ + 1]

\* ingest_topic lines 76-85; run 0 is called by the endpoint POST
\* /ingest/topic, run j by the task of job j (ingestion.py line 192)
ingest_topic_call(r) ==
    /\ run[r].pc = "idle"
    /\ r # 0 => task[r].pc = "ingesting"
    /\ run' = [run EXCEPT ![r] =
                 IF tavily_key
                   THEN [NoRun EXCEPT !.pc = "search"]
                   ELSE [NoRun EXCEPT !.pc = "raised", !.acquisition = "no_key"]]
    /\ UNCHANGED <<articles, tracker, jobVars, regVars, linkVars, stageVars>>

\* _search_web returns the result list: lines 85-108
search_web_returns(r, cands) ==
    /\ run[r].pc = "search"
    /\ run' = [run EXCEPT ![r] =
                 IF cands = << >>
                   THEN [@ EXCEPT !.pc = "returned", !.acquisition = "empty",
                                  !.errors = 1]
                   ELSE NextResult([@ EXCEPT !.acquisition = "ok", !.cands = cands],
                                   articles)]
    /\ UNCHANGED <<articles, tracker, jobVars, regVars, linkVars, stageVars>>

\* an attempt of _search_web fails; transient: a network error, a timeout
\* or a status 429/5xx
search_web_fails(r, transient) ==
    /\ run[r].pc = "search"
    /\ run' = [run EXCEPT ![r] =
                 IF Retryable(@, transient)
                   THEN [@ EXCEPT !.attempt = @ + 1]
                   ELSE AcquisitionFailed(@)]
    /\ UNCHANGED <<articles, tracker, jobVars, regVars, linkVars, stageVars>>

\* _fetch_content returns the page text: lines 110-115
fetch_content_returns(r, long) ==
    /\ run[r].pc = "fetch"
    /\ run' = [run EXCEPT ![r] =
                 IF long THEN [@ EXCEPT !.pc = "process"]
                         ELSE ItemFailed(@, "short", articles)]
    /\ UNCHANGED <<articles, tracker, jobVars, regVars, linkVars, stageVars>>

\* an attempt of _fetch_content fails; after the last one the exception
\* reaches the except clause of the loop body (lines 147-150)
fetch_content_fails(r, transient) ==
    /\ run[r].pc = "fetch"
    /\ run' = [run EXCEPT ![r] =
                 IF Retryable(@, transient)
                   THEN [@ EXCEPT !.attempt = @ + 1]
                   ELSE ItemFailed(@, "fetch_raised", articles)]
    /\ UNCHANGED <<articles, tracker, jobVars, regVars, linkVars, stageVars>>

\* process_article_content returns, lines 115-146: the article is added
\* and flushed (the unique index on articles.url rejects a URL stored
\* since the check of line 104), then committed
process_article_content_returns(r) ==
    /\ run[r].pc = "process"
    /\ LET url == run[r].cands[run[r].i]
       IN IF url \in articles
            THEN /\ articles' = articles
                 /\ run' = [run EXCEPT ![r] = ItemFailed(@, "conflict", articles)]
            ELSE /\ articles' = articles \cup {url}
                 /\ run' = [run EXCEPT ![r] =
                              NextResult([@ EXCEPT !.articles_created = @ + 1,
                                                   !.log = Append(@, "created")],
                                         articles \cup {url})]
    /\ UNCHANGED <<tracker, jobVars, regVars, linkVars, stageVars>>

\* process_article_content raises
process_article_content_raises(r) ==
    /\ run[r].pc = "process"
    /\ run' = [run EXCEPT ![r] = ItemFailed(@, "process_raised", articles)]
    /\ UNCHANGED <<articles, tracker, jobVars, regVars, linkVars, stageVars>>

\* the except clause of the loop body raises itself (db.rollback() of line
\* 148 fails after the fetch or the processing raised): the exception
\* reaches the outer except of lines 162-171, which ends the loop and
\* returns a response with one more error
item_handler_raises(r) ==
    /\ run[r].pc \in {"fetch", "process"}
    /\ run' = [run EXCEPT ![r] =
                 [@ EXCEPT !.pc = "returned", !.errors = @ + 1,
                           !.log = Append(@, "aborted")]]
    /\ UNCHANGED <<articles, tracker, jobVars, regVars, linkVars, stageVars>>

\* ingestion.py line 192: the awaited call raises into the task of job j
await_ingest_topic_raises(j) ==
    /\ run[j].pc = "raised"
    /\ run_topic_ingestion_job_raises(j)

\* ingestion.py lines 192-208: the awaited call returns its response
await_ingest_topic_returns(j) ==
    /\ run[j].pc = "returned"
    /\ run_topic_ingestion_job_completes(j, run[j].articles_processed,
                                         run[j].articles_created, run[j].errors)

\* ------------------------------------------------- _retry_with_backoff
INITIAL_RETRY_DELAY == 1
MAX_RETRY_DELAY == 10

\* what an attempt can raise: the httpx exceptions the function names, an
\* HTTPStatusError with its status code, or any other exception
StatusCodes == {400, 404, 429, 500, 501, 502, 503, 504}
Errors ==
    {[type |-> t, status |-> 0] :
        t \in {"ConnectError", "TimeoutException", "ReadTimeout", "Exception"}}
      \cup {[type |-> "HTTPStatusError", status |-> c] : c \in StatusCodes}
NoError == [type |-> "None", status |-> 0]

\* A _retry_with_backoff call.  pc: idle, calling (suspended in "await
\* func(..)"), sleeping (in asyncio.sleep), returned, raised; attempt: the
\* loop variable; calls: the attempts started; seen: what the attempts
\* raised, in order; delays: the sleeps made, in order; exc: the exception
\* raised to the caller.
NoRetry == [pc |-> "idle", attempt |-> 0, calls |-> 0, seen |-> << >>,
            delays |-> << >>, exc |-> NoError]

RECURSIVE Pow2(_)
Pow2(n) == IF n = 0 THEN 1 ELSE 2 * Pow2(n - 1)
Min(a, b) == IF a <= b THEN a ELSE b

\* line 46 / 56: delay = min(INITIAL_RETRY_DELAY * (2 ** attempt), MAX_RETRY_DELAY)
Delay(attempt) == Min(INITIAL_RETRY_DELAY * Pow2(attempt), MAX_RETRY_DELAY)

\* the except clauses of lines 43 and 51-54
Retried(e) ==
    \/ e.type \in {"ConnectError", "TimeoutException", "ReadTimeout"}
    \/ e.type = "HTTPStatusError" /\ e.status \in {429, 500, 502, 503, 504}

\* lines 38-42: the call starts its first attempt
retry_with_backoff_call ==
    /\ retry.pc = "idle"
    /\ retry' = [NoRetry EXCEPT !.pc = "calling", !.calls = 1]
    /\ UNCHANGED <<jobVars, regVars, tracker, ingestVars, linkVars, research>>

\* line 42: the attempt returns a value
retry_func_returns ==
    /\ retry.pc = "calling"
    /\ retry' = [retry EXCEPT !.pc = "returned"]
    /\ UNCHANGED <<jobVars, regVars, tracker, ingestVars, linkVars, research>>

\* lines 43-67: the attempt raises e; a retried error is followed by a
\* sleep unless the attempt was the last, after which line 70-71 raises it
retry_func_raises(e) ==
    /\ retry.pc = "calling"
    /\ retry' =
         IF Retried(e)
           THEN IF retry.attempt < MAX_RETRIES - 1
                  THEN [retry EXCEPT !.pc = "sleeping", !.seen = Append(@, e),
                                     !.delays = Append(@, Delay(retry.attempt))]
                  ELSE [retry EXCEPT !.pc = "raised", !.seen = Append(@, e),
                                     !.exc = e]
           ELSE [retry EXCEPT !.pc = "raised", !.seen = Append(@, e), !.exc = e]
    /\ UNCHANGED <<jobVars, regVars, tracker, ingestVars, linkVars, research>>

\* lines 47 / 57: the sleep is over and the loop starts the next attempt
retry_sleep_returns ==
    /\ retry.pc = "sleeping"
    /\ retry' = [retry EXCEPT !.pc = "calling", !.attempt = @ + 1, !.calls = @ + 1]
    /\ UNCHANGED <<jobVars, regVars, tracker, ingestVars, linkVars, research>>

\* ====================================================================
\* ResearchService (services/research_service.py)
\* ====================================================================
\* One ResearchService.research_topic call.  pc: idle, gathering (suspended
\* in asyncio.gather), returned.  web: the _search_web branch (ready,
\* running, returned, raised) with the counts it returned; yt: the
\* _search_youtube branch (ready, searching, ingesting, returned), the videos
\* the search returned ("new" or "stored": an article with that URL exists),
\* the index of the video in hand and the local counts; result: the dict
\* research_topic returns, its errors list as the number of entries and
\* whether a "Web search failed" entry is among them.
NoBranch == [pc |-> "ready", created |-> 0, errors |-> 0]
NoVideos == [pc |-> "ready", videos |-> << >>, i |-> 0, created |-> 0, errors |-> 0]
NoResult == [success |-> FALSE, web_articles_created |-> 0,
             youtube_videos_created |-> 0, total_articles_created |-> 0,
             errors |-> 0, web_failed |-> FALSE]
NoResearch == [pc |-> "idle", web |-> NoBranch, yt |-> NoVideos, result |-> NoResult]

VideoTags == {"new", "stored"}
VideoLists == UNION {[1..n -> VideoTags] : n \in 0..MaxCands}

\* research_topic lines 54-66: both coroutines are created and gathered
research_topic_gather ==
    /\ research.pc = "idle"
    /\ research' = [research EXCEPT !.pc = "gathering"]
    /\ UNCHANGED <<jobVars, regVars, tracker, ingestVars, linkVars, retry>>

\* _search_web lines 105-120, first step (the web task is the first of the
\* two to run): ingest_topic raises ValueError at once when the key is
\* missing and _search_web re-raises it, otherwise the search is awaited
research_search_web_begins ==
    /\ research.pc = "gathering" /\ research.web.pc = "ready"
    /\ research' = [research EXCEPT !.web.pc = IF tavily_key THEN "running"
                                                             ELSE "raised"]
    /\ UNCHANGED <<jobVars, regVars, tracker, ingestVars, linkVars, retry>>

\* _search_web lines 113-117: ingest_topic returned its IngestionResponse
\* (it catches every later exception itself)
research_search_web_returns(created, errors) ==
    /\ research.web.pc = "running"
    /\ research' = [research EXCEPT !.web = [pc |-> "returned", created |-> created,
                                             errors |-> errors]]
    /\ UNCHANGED <<jobVars, regVars, tracker, ingestVars, linkVars, retry>>

\* _search_youtube lines 122-129, first step: search_videos is awaited
research_search_youtube_begins ==
    /\ research.pc = "gathering" /\ research.web.pc # "ready"
    /\ research.yt.pc = "ready"
    /\ research' = [research EXCEPT !.yt.pc = "searching"]
    /\ UNCHANGED <<jobVars, regVars, tracker, ingestVars, linkVars, retry>>

\* the videos after the i-th that no article exists for yet come next:
\* "if existing: continue" (lines 141-144) skips the others without a count
RECURSIVE NextVideo(_, _)
NextVideo(videos, i) ==
    IF i > Len(videos) THEN i
    ELSE IF videos[i] = "stored" THEN NextVideo(videos, i + 1)
    ELSE i

\* the loop of _search_youtube reaches index i: it awaits the ingestion of
\* that video, or it is over and the branch returns its dict (line 163)
AtVideo(yt, i) ==
    [yt EXCEPT !.i = i, !.pc = IF i > Len(yt.videos) THEN "returned" ELSE "ingesting"]

\* lines 129-144: search_videos returned (an empty list when the key is
\* missing or the search failed: it never raises)
search_videos_returns(videos) ==
    /\ research.yt.pc = "searching"
    /\ research' = [research EXCEPT !.yt =
                       AtVideo([@ EXCEPT !.videos = videos], NextVideo(videos, 1))]
    /\ UNCHANGED <<jobVars, regVars, tracker, ingestVars, linkVars, retry>>

VideoOutcomes == {"success", "failure", "raises"}

\* lines 146-161: ingest_youtube_video returned with success or with
\* errors, or an exception reached the except clause of the loop body
ingest_youtube_video_returns(o) ==
    /\ research.yt.pc = "ingesting"
    /\ research' = [research EXCEPT !.yt =
                       AtVideo([@ EXCEPT !.created = IF o = "success" THEN @ + 1 ELSE @,
                                         !.errors = IF o = "success" THEN @ ELSE @ + 1],
                               NextVideo(@.videos, @.i + 1))]
    /\ UNCHANGED <<jobVars, regVars, tracker, ingestVars, linkVars, retry>>

\* a variant of gather without return_exceptions: the first exception of a
\* branch resumes research_topic at once
GatherDone_FirstException(web, yt) ==
    \/ web.pc = "raised"
    \/ web.pc = "returned" /\ yt.pc = "returned"
\* asyncio.gather(web_task, youtube_task, return_exceptions=True), lines
\* 62-66: resumed when both branches have returned or raised
GatherDone(web, yt) ==
    /\ web.pc \in {"returned", "raised"}
    /\ yt.pc = "returned"

\* lines 68-101: the counts and the errors of the two outcomes
Aggregate(web, yt) ==
    LET web_created == IF web.pc = "returned" THEN web.created ELSE 0
        videos_created == IF yt.pc = "returned" THEN yt.created ELSE 0
    IN [success |-> web_created + videos_created > 0,
        web_articles_created |-> web_created,
        youtube_videos_created |-> videos_created,
        total_articles_created |-> web_created + videos_created,
        errors |-> (IF web.pc = "returned" THEN web.errors ELSE 1)
                     + (IF yt.pc = "returned" THEN yt.errors ELSE 1),
        web_failed |-> web.pc # "returned"]

\* research_topic lines 68-103, once gather has resumed it
research_topic_aggregates ==
    /\ research.pc = "gathering"
    /\ GatherDone(research.web, research.yt)
    /\ research' = [research EXCEPT !.pc = "returned",
                                    !.result = Aggregate(research.web, research.yt)]
    /\ UNCHANGED <<jobVars, regVars, tracker, ingestVars, linkVars, retry>>

\* ====================================================================
\* ConnectionManager (services/websocket_manager.py)
\* ====================================================================
\* A send_job_update / broadcast invocation while it runs.  start: the set
\* as it was when the loop began; globals: the connections of the global
\* group at that time; detached: the set object the loop iterates has been
\* deleted from active_connections (it was emptied first); visited; failed:
\* the local "disconnected" set; cur/curOk: the send in flight.
NoCall == [pc |-> "unused", job |-> 0, start |-> {}, globals |-> {},
           detached |-> FALSE, visited |-> {}, failed |-> {}, cur |-> 0,
           curOk |-> FALSE]

\* What is kept of the invocations that are over.  threw: a send loop raised
\* to its caller; missed: the connections subscribed from the start to the
\* end of an invocation that it never sent to; missedOnRaise: those of them
\* missed by an invocation in which a send raised; leftover: the connections
\* whose send raised in an invocation and that the registry still held when
\* it was over; split: in one invocation a connection subscribed for the
\* whole of it was sent the message and another one was not;
\* missedGlobals: the connections in the global group from the start to the
\* end of a send_job_update that it never sent to.
NoOutcome == [threw |-> FALSE, missed |-> {}, missedOnRaise |-> {},
              leftover |-> {}, missedGlobals |-> {}, split |-> FALSE]

Registry == [all |-> all_connections, active |-> active_connections, dropped |-> {}]

\* a variant that adds the connection to the subscriber set of every job
ConnectRegister_EveryJob(reg, c, j) ==
    [reg EXCEPT
       !.all = @ \cup {c},
       !.active = [i \in (DOMAIN @) \cup (IF j = 0 THEN {} ELSE {j}) |->
                     (IF i \in DOMAIN @ THEN @[i] ELSE {}) \cup {c}]]
\* connect(websocket, job_id), after websocket.accept() has returned
ConnectRegister(reg, c, j) ==
    [reg EXCEPT
       !.all = @ \cup {c},
       !.active = IF j = 0 THEN @
                  ELSE [i \in (DOMAIN @) \cup {j} |->
                          IF i = j THEN (IF j \in DOMAIN @ THEN @[j] ELSE {}) \cup {c}
                                   ELSE @[i]]]

\* a variant that forgets the connection in all_connections only
disconnect_OnlyAllConnections(reg, c, j) == [reg EXCEPT !.all = @ \ {c}]
\* disconnect(websocket, job_id); job_id = 0 stands for None
disconnect(reg, c, j) ==
    IF j # 0 /\ j \in DOMAIN reg.active
      THEN IF reg.active[j] \ {c} = {}
             THEN [all |-> reg.all \ {c},
                   active |-> [i \in (DOMAIN reg.active) \ {j} |-> reg.active[i]],
                   dropped |-> reg.dropped \cup {j}]
             ELSE [reg EXCEPT !.all = @ \ {c}, !.active[j] = @ \ {c}]
      ELSE [reg EXCEPT !.all = @ \ {c},
                       !.active = [i \in DOMAIN @ |-> @[i] \ {c}]]

\* "for conn in disconnected: self.disconnect(conn, job_id)"
RECURSIVE CleanUp(_, _, _)
CleanUp(reg, S, j) ==
    IF S = {} THEN reg
    ELSE LET c == CHOOSE x \in S : TRUE
         IN CleanUp(disconnect(reg, c, j), S \ {c}, j)

\* a loop that iterates a set object deleted from the dict keeps that
\* (empty) object
Detach(cs, dropped) ==
    [k \in CallIds |->
       IF cs[k].pc = "job" /\ cs[k].job \in dropped
         THEN [cs[k] EXCEPT !.detached = TRUE]
         ELSE cs[k]]

SetRegistry(reg, cs) ==
    /\ all_connections' = reg.all
    /\ active_connections' = reg.active
    /\ calls' = Detach(cs, reg.dropped)

\* ------------------------------------------------ subscription handlers
\* the fields of the Job object a handler holds, as its session loaded
\* them, from the lookup until the snapshot built from them has been sent
NoState == [status |-> None, progress |-> 0]
\* db.query(Job).filter(Job.id == job_id).first(); old:
\* what the handler holds when the rows are not part of the model
Loaded(j, old) ==
    IF RowExists(j)
      THEN [status |-> jobs[j].status, progress |-> jobs[j].progress]
      ELSE old

\* connections are numbered in the order their handlers start
NextToArrive(c) ==
    /\ handler[c].pc = "new"
    /\ \A d \in Conns : d < c => handler[d].pc # "new"

\* websocket_job_updates lines 37-43: look the job up; close when it is
\* missing, otherwise enter manager.connect (await websocket.accept())
websocket_job_updates_start(c, j, found) ==
    /\ NextToArrive(c)
    /\ handler' = [handler EXCEPT ![c] =
                     IF found THEN [@ EXCEPT !.pc = "accepting", !.job = j,
                                             !.state = Loaded(j, @)]
                              ELSE [@ EXCEPT !.pc = "closed"]]
    /\ UNCHANGED <<all_connections, active_connections,
                   disconnected, sendRaised, calls, outcome, ncalls>>
    /\ UNCHANGED <<jobVars, otherVars>>

\* websocket_all_jobs line 120: manager.connect(websocket)
websocket_all_jobs_start(c) ==
    /\ NextToArrive(c)
    /\ handler' = [handler EXCEPT ![c].pc = "accepting", ![c].job = 0]
    /\ UNCHANGED <<all_connections, active_connections,
                   disconnected, sendRaised, calls, outcome, ncalls>>
    /\ UNCHANGED <<jobVars, otherVars>>

\* connect lines 29-38 once accept() returned, and for a job subscription the
\* first send of the handler (lines 47-59), which starts without any await
\* in between; ok: whether that send_json will succeed
connect(c, ok) ==
    /\ handler[c].pc = "accepting"
    /\ SetRegistry(ConnectRegister(Registry, c, handler[c].job), calls)
    /\ handler' = IF handler[c].job = 0
                    THEN [handler EXCEPT ![c].pc = "idle"]
                    ELSE [handler EXCEPT ![c].pc = "snapshot", ![c].ok = ok]
    /\ UNCHANGED <<disconnected, sendRaised, outcome, ncalls>>
    /\ UNCHANGED <<jobVars, otherVars>>

\* websocket.accept() raising: the exception leaves the handler before the try
connect_raises(c) ==
    /\ handler[c].pc = "accepting"
    /\ handler' = [handler EXCEPT ![c].pc = "closed", ![c].state = NoState]
    /\ UNCHANGED <<all_connections, active_connections,
                   disconnected, sendRaised, calls, outcome, ncalls>>
    /\ UNCHANGED <<jobVars, otherVars>>

\* send_personal_message lines 65-67: on an exception only all_connections
\* forgets the connection
PersonalSendFailed(reg, c, j) == [reg EXCEPT !.all = @ \ {c}]

\* the snapshot send returns or raises inside send_personal_message
send_personal_message_returns(c) ==
    /\ handler[c].pc = "snapshot"
    /\ handler' = [handler EXCEPT ![c].pc = "idle", ![c].ok = FALSE,
                                  ![c].state = NoState,
                                  ![c].snapshots = IF handler[c].ok THEN @ + 1 ELSE @]
    /\ IF handler[c].ok
         THEN UNCHANGED <<all_connections, active_connections, calls, sendRaised>>
         ELSE /\ SetRegistry(PersonalSendFailed(Registry, c, handler[c].job), calls)
              /\ sendRaised' = sendRaised \cup {c}
    /\ UNCHANGED <<disconnected, outcome, ncalls>>
    /\ UNCHANGED <<jobVars, otherVars>>

\* websocket_job_updates lines 75-90: the client asks for "refresh" and the
\* reply is sent with send_personal_message (the reply itself is not recorded)
handler_refresh(c, ok) ==
    /\ handler[c].pc = "idle" /\ handler[c].job # 0
    /\ IF ok
         THEN UNCHANGED <<all_connections, active_connections, calls, sendRaised>>
         ELSE /\ SetRegistry(PersonalSendFailed(Registry, c, handler[c].job), calls)
              /\ sendRaised' = sendRaised \cup {c}
    /\ UNCHANGED <<handler, disconnected, outcome, ncalls>>
    /\ UNCHANGED <<jobVars, otherVars>>

\* the handler leaves its loop ("close", WebSocketDisconnect, a pong or
\* heartbeat send raising, any other exception) and runs its finally:
\* manager.disconnect(websocket, job_id) / manager.disconnect(websocket)
handler_ends(c) ==
    /\ handler[c].pc = "idle"
    /\ SetRegistry(disconnect(Registry, c, handler[c].job), calls)
    /\ handler' = [handler EXCEPT ![c].pc = "closed"]
    /\ disconnected' = disconnected \cup {c}
    /\ UNCHANGED <<sendRaised, outcome, ncalls>>
    /\ UNCHANGED <<jobVars, otherVars>>

\* ------------------------------------- JobTracker (services/job_tracker.py)
\* The update_job invocation.  pc: idle, sending (suspended in
\* "await manager.send_job_progress(..)"), returned, raised (an exception
\* left update_job); job, progress: the row and the value it committed;
\* call: the send_job_update invocation it awaits; supplied: the caller
\* passed a field; commit_raised: db.commit() raised and left update_job.
NoTracker == [pc |-> "idle", job |-> 0, progress |-> 0, call |-> 0,
              supplied |-> FALSE]

\* a variant with no except clause around the notification
CaughtByUpdateJob_NoExcept(raised) == FALSE
\* lines 73-86: "try: await manager.send_job_progress(..) except Exception"
CaughtByUpdateJob(raised) == raised

\* the send loop of invocation k is over and control returns to the
\* coroutine that awaits it: send_job_progress (websocket_manager.py lines
\* 120-161) passes the exception through to update_job
Resumed(k, raised) ==
    IF tracker.pc = "sending" /\ tracker.call = k
      THEN [tracker EXCEPT !.pc = IF raised /\ ~CaughtByUpdateJob(raised)
                                    THEN "raised" ELSE "returned"]
      ELSE tracker

\* ------------------------------------------------------- the send paths
\* a send on a closed socket raises; any other send may succeed or raise
SendOutcomes(c) == IF handler[c].pc = "closed" THEN {FALSE} ELSE BOOLEAN

\* the set object a send_job_update loop holds: the live subscriber set, or
\* the emptied set once the key has been deleted
LiveSet(call) ==
    IF ~call.detached /\ call.job \in DOMAIN active_connections
      THEN active_connections[call.job]
      ELSE {}

\* a variant that iterates a copy taken when the loop began, as broadcast does
IterationSet_Copy(call) == call.start
\* send_job_update line 88 iterates self.active_connections[job_id] itself
IterationSet(call) == LiveSet(call)

\* the set iterator raises RuntimeError when the set changed size
SizeChanged(call) == Cardinality(IterationSet(call)) # Cardinality(call.start)

Registered(reg) == reg.all \cup UNION {reg.active[i] : i \in DOMAIN reg.active}

GlobalGroup == {c \in all_connections : handler[c].job = 0}

\* an invocation is over; reg: the registry it leaves
Finished(call, raised, visited, failed, stayed, reg) ==
    [threw |-> outcome.threw \/ raised,
     missed |-> outcome.missed \cup (stayed \ visited),
     missedOnRaise |-> outcome.missedOnRaise
                         \cup (IF failed # {} THEN stayed \ visited ELSE {}),
     leftover |-> outcome.leftover \cup (failed \cap Registered(reg)),
     missedGlobals |-> outcome.missedGlobals
                         \cup ((call.globals \cap GlobalGroup) \ visited),
     split |-> outcome.split \/ ( /\ (stayed \cap visited) \ failed # {}
                                  /\ stayed \ visited # {} )]

Over == [NoCall EXCEPT !.pc = "over"]

\* send_job_update lines 77-90: return when nobody subscribed, else build
\* the message and start the first send of the loop
send_job_update_begins(j) ==
    /\ ncalls < MaxCalls
    /\ ncalls' = ncalls + 1
    /\ IF j \notin DOMAIN active_connections \/ active_connections[j] = {}
         THEN /\ calls' = [calls EXCEPT ![ncalls + 1] = Over]
              /\ outcome' = [outcome EXCEPT !.missedGlobals = @ \cup GlobalGroup]
         ELSE \E c \in active_connections[j], ok \in BOOLEAN :
                /\ calls' = [calls EXCEPT ![ncalls + 1] =
                               [NoCall EXCEPT !.pc = "job", !.job = j,
                                              !.start = active_connections[j],
                                              !.globals = GlobalGroup,
                                              !.cur = c, !.curOk = ok]]
                /\ outcome' = outcome
    /\ UNCHANGED <<all_connections, active_connections, handler,
                   disconnected, sendRaised>>

\* send_job_update called by any coroutine other than JobTracker.update_job
send_job_update(j) ==
    /\ send_job_update_begins(j)
    /\ UNCHANGED <<jobVars, otherVars>>

\* send_job_update lines 88-97: the pending send returns or raises, then the
\* for statement takes the next connection of the set, or raises, or ends and
\* the failed connections are disconnected
send_job_update_next(k) ==
    /\ calls[k].pc = "job"
    /\ LET call == calls[k]
           visited == call.visited \cup {call.cur}
           failed == call.failed \cup (IF call.curOk THEN {} ELSE {call.cur})
           remaining == IterationSet(call) \ visited
           stayed == LiveSet(call) \cap call.start
       IN IF SizeChanged(call)
            THEN /\ calls' = [calls EXCEPT ![k] = Over]
                 /\ outcome' = Finished(call, TRUE, visited, failed, stayed, Registry)
                 /\ sendRaised' = sendRaised \cup failed
                 /\ tracker' = Resumed(k, TRUE)
                 /\ UNCHANGED <<all_connections, active_connections,
                                disconnected>>
            ELSE \/ \E c \in remaining : \E ok \in SendOutcomes(c) :
                      /\ calls' = [calls EXCEPT ![k] =
                                     [call EXCEPT !.visited = visited, !.failed = failed,
                                                  !.cur = c, !.curOk = ok]]
                      /\ UNCHANGED <<all_connections, active_connections,
                                     disconnected, sendRaised, outcome, tracker>>
                 \/ /\ remaining \cap call.start = {}
                    /\ SetRegistry(CleanUp(Registry, failed, call.job),
                                   [calls EXCEPT ![k] = Over])
                    /\ outcome' = Finished(call, FALSE, visited, failed, stayed,
                                           CleanUp(Registry, failed, call.job))
                    /\ disconnected' = disconnected \cup failed
                    /\ sendRaised' = sendRaised \cup failed
                    /\ tracker' = Resumed(k, FALSE)
    /\ UNCHANGED <<handler, ncalls>>
    /\ UNCHANGED <<jobVars, ingestVars, linkVars, stageVars>>

\* broadcast lines 106-111: iterate a copy of all_connections
broadcast ==
    /\ ncalls < MaxCalls
    /\ ncalls' = ncalls + 1
    /\ IF all_connections = {}
         THEN /\ calls' = [calls EXCEPT ![ncalls + 1] = Over]
         ELSE \E c \in all_connections, ok \in BOOLEAN :
                /\ calls' = [calls EXCEPT ![ncalls + 1] =
                               [NoCall EXCEPT !.pc = "bcast", !.start = all_connections,
                                              !.cur = c, !.curOk = ok]]
    /\ UNCHANGED <<all_connections, active_connections, handler,
                   disconnected, sendRaised, outcome>>
    /\ UNCHANGED <<jobVars, otherVars>>

\* broadcast lines 109-118
broadcast_next(k) ==
    /\ calls[k].pc = "bcast"
    /\ LET call == calls[k]
           visited == call.visited \cup {call.cur}
           failed == call.failed \cup (IF call.curOk THEN {} ELSE {call.cur})
           remaining == call.start \ visited
           stayed == all_connections \cap call.start
       IN \/ \E c \in remaining : \E ok \in SendOutcomes(c) :
                /\ calls' = [calls EXCEPT ![k] =
                               [call EXCEPT !.visited = visited, !.failed = failed,
                                            !.cur = c, !.curOk = ok]]
                /\ UNCHANGED <<all_connections, active_connections,
                               disconnected, sendRaised, outcome>>
          \/ /\ remaining = {}
             /\ SetRegistry(CleanUp(Registry, failed, 0), [calls EXCEPT ![k] = Over])
             /\ outcome' = Finished(call, FALSE, visited, failed, stayed,
                                    CleanUp(Registry, failed, 0))
             /\ disconnected' = disconnected \cup failed
             /\ sendRaised' = sendRaised \cup failed
    /\ UNCHANGED <<handler, ncalls>>
    /\ UNCHANGED <<jobVars, otherVars>>

\* "progress: Optional[int] = None": the argument when no field is passed
NoField == -1

\* a variant that commits and notifies whether or not a field was passed
Updated_Always(p) == TRUE
\* update_job lines 42-66: "updated" is set by a field that is not None
Updated(p) == p # NoField

\* JobTracker.update_job(job, db, progress=p) called by the running task of
\* job j, lines 42-74: set the field, commit, refresh, then enter
\* manager.send_job_progress with the refreshed values, which runs
\* send_job_update up to its first send (or returns at once when nobody is
\* subscribed); with no field (p = NoField) it returns without doing anything
update_job(j, p) ==
    /\ tracker.pc \in {"idle", "returned"}
    /\ RowExists(j)
    /\ task[j].pc = "ingesting"
    /\ IF Updated(p)
         THEN /\ jobs' = [jobs EXCEPT ![j].progress = IF p = NoField THEN @ ELSE p]
              /\ notifyCalls' = [notifyCalls EXCEPT ![j] = @ + 1]
              /\ send_job_update_begins(j)
              /\ tracker' = [pc |-> IF calls'[ncalls + 1].pc = "over"
                                      THEN "returned" ELSE "sending",
                             job |-> j, progress |-> jobs'[j].progress,
                             call |-> ncalls + 1, supplied |-> p # NoField]
         ELSE /\ tracker' = [pc |-> "returned", job |-> j,
                             progress |-> jobs[j].progress, call |-> 0,
                             supplied |-> FALSE]
              /\ UNCHANGED <<jobs, notifyCalls, regVars>>
    /\ UNCHANGED <<nextJobId, task, tavily_key, response>>
    /\ UNCHANGED <<ingestVars, linkVars, stageVars>>

\* update_job line 68: db.commit() raises; the exception leaves update_job
\* before the notification and the row keeps what was persisted
update_job_commit_raises(j, p) ==
    /\ tracker.pc \in {"idle", "returned"}
    /\ RowExists(j)
    /\ task[j].pc = "ingesting"
    /\ tracker' = [pc |-> "commit_raised", job |-> j, progress |-> p,
                   call |-> 0, supplied |-> TRUE]
    /\ UNCHANGED <<jobVars, regVars, ingestVars, linkVars, stageVars>>

\* ====================================================================
\* Article connections (routers/embeddings.py)
\* ====================================================================
\* the values a cosine similarity and a threshold take, as levels
Levels == 0..1

\* generate_embeddings_task lines 91-114 for one article: an article that
\* has no embedding gets one (the articles are numbered in the order in
\* which their embeddings are stored)
generate_embeddings_task(a) ==
    /\ a \notin embedded
    /\ \A b \in ArticleIds : b < a => b \in embedded
    /\ embedded' = embedded \cup {a}
    /\ UNCHANGED <<similarity, connections, linkRun>>
    /\ UNCHANGED <<tracker, jobVars, regVars, ingestVars, stageVars>>

\* db.query(Embedding).all(): the rows in any order
Orders(S) ==
    {o \in [1..Cardinality(S) -> S] :
        \A i, k \in 1..Cardinality(S) : i # k => o[i] # o[k]}

\* a variant that looks for a row in the direction (source, target) only
Existing_OneDirection(conn, a, b) == conn[<<a, b>>] > 0
\* lines 187-192: a row in either direction
Existing(conn, a, b) == conn[<<a, b>>] > 0 \/ conn[<<b, a>>] > 0

\* lines 180-202 for emb1 = a, emb2 = b
VisitPair(conn, a, b, threshold) ==
    IF similarity[{a, b}] >= threshold /\ ~Existing(conn, a, b)
      THEN [conn EXCEPT ![<<a, b>>] = @ + 1]
      ELSE conn

\* lines 176-202: "for i, emb1 in enumerate(embedding_data):
\*                   for emb2 in embedding_data[i+1:]:"
RECURSIVE ComputeLoop(_, _, _, _, _)
ComputeLoop(conn, o, i, k, threshold) ==
    IF i > Len(o) THEN conn
    ELSE IF k > Len(o) THEN ComputeLoop(conn, o, i + 1, i + 2, threshold)
    ELSE ComputeLoop(VisitPair(conn, o[i], o[k], threshold), o, i, k + 1, threshold)

\* the run met a pair (emb1, emb2) at or above the threshold whose row is
\* stored as (emb2, emb1)
MetReversed(conn, o, threshold) ==
    \E i, k \in DOMAIN o :
        /\ i < k
        /\ similarity[{o[i], o[k]}] >= threshold
        /\ conn[<<o[k], o[i]>>] > 0

\* compute_connections_task(threshold), lines 147-211; it has no await, so
\* a run is one step of the event loop
compute_connections_task(threshold, o) ==
    /\ connections' = IF Len(o) < 2 THEN connections
                      ELSE ComputeLoop(connections, o, 1, 2, threshold)
    /\ linkRun' = [threshold |-> threshold, tick |-> ~linkRun.tick,
                   reversed |-> MetReversed(connections, o, threshold)]
    /\ UNCHANGED <<embedded, similarity>>
    /\ UNCHANGED <<tracker, jobVars, regVars, ingestVars, stageVars>>

\* ====================================================================
\* Specifications
\* ====================================================================
InitJobs ==
    /\ jobs = << >>
    /\ nextJobId = 1
    /\ task = [j \in JobIds |-> NoTask]
    /\ tavily_key \in BOOLEAN
    /\ response = [op |-> "none", id |-> 0, code |-> 0, ids |-> {}]
    /\ notifyCalls = [j \in JobIds |-> 0]
    /\ all_connections = {}
    /\ active_connections = << >>
    /\ handler = [c \in Conns |-> [pc |-> "new", job |-> 0, ok |-> FALSE, snapshots |-> 0, state |-> NoState]]
    /\ disconnected = {}
    /\ sendRaised = {}
    /\ calls = [k \in CallIds |-> NoCall]
    /\ outcome = NoOutcome
    /\ ncalls = 0
    /\ tracker = NoTracker
    /\ articles = {}
    /\ run = [r \in RunIds |-> NoRun]
    /\ embedded = {}
    /\ similarity = [p \in Pairs |-> 0]
    /\ connections = [l \in Links |-> 0]
    /\ linkRun = [threshold |-> 0, tick |-> FALSE, reversed |-> FALSE]
    /\ retry = NoRetry
    /\ research = NoResearch

InitRegistry ==
    /\ jobs = << >>
    /\ nextJobId = 1
    /\ task = [j \in JobIds |-> NoTask]
    /\ tavily_key = TRUE
    /\ response = [op |-> "none", id |-> 0, code |-> 0, ids |-> {}]
    /\ notifyCalls = [j \in JobIds |-> 0]
    /\ all_connections = {}
    /\ active_connections = << >>
    /\ handler = [c \in Conns |-> [pc |-> "new", job |-> 0, ok |-> FALSE, snapshots |-> 0, state |-> NoState]]
    /\ disconnected = {}
    /\ sendRaised = {}
    /\ calls = [k \in CallIds |-> NoCall]
    /\ outcome = NoOutcome
    /\ ncalls = 0
    /\ tracker = NoTracker
    /\ articles = {}
    /\ run = [r \in RunIds |-> NoRun]
    /\ embedded = {}
    /\ similarity = [p \in Pairs |-> 0]
    /\ connections = [l \in Links |-> 0]
    /\ linkRun = [threshold |-> 0, tick |-> FALSE, reversed |-> FALSE]
    /\ retry = NoRetry
    /\ research = NoResearch

Statuses == {"pending", "running", "completed", "failed"}

NextJobs ==
    \/ ingest_topic_async
    \/ research_topic
    \/ \E j \in JobIds : get_job(j)
    \/ \E st \in Statuses \cup {None} : list_jobs(st)
    \/ \E j \in JobIds : delete_job(j)
    \/ \E j \in JobIds : run_topic_ingestion_job_start(j)
    \/ \E j \in JobIds : run_topic_ingestion_job_raises(j)
    \/ \E j \in JobIds, created \in 0..MaxItems, errors \in 0..MaxItems :
          run_topic_ingestion_job_completes(j, created + errors, created, errors)
    \/ \E j \in JobIds : run_research_job_start(j)
    \/ \E j \in JobIds : run_research_job_raises(j)
    \/ \E j \in JobIds, created \in 0..MaxItems, errors \in 0..MaxItems :
          run_research_job_ingested(j, created, errors)
    \/ \E j \in JobIds, raises \in BOOLEAN, swallowed \in 0..MaxItems :
          run_research_job_embeddings(j, raises, swallowed)
    \/ \E j \in JobIds, raises \in BOOLEAN, swallowed \in BOOLEAN :
          run_research_job_connections(j, raises, swallowed)
    \/ \E j \in JobIds : run_research_job_completes(j)
    \/ \E j \in JobIds : run_job_except_handler(j)
    \/ \E j \in JobIds : run_job_except_handler_raises(j)

\* the job store with its orchestrators; settings.TAVILY_API_KEY set or not
SpecJobs == InitJobs /\ [][NextJobs]_vars

\* the event loop runs every task that is ready: an external call that a
\* task awaits returns or raises, and the task then takes its next step
SpecJobsFair ==
    InitJobs /\ [][NextJobs]_vars /\ \A j \in JobIds : WF_vars(TaskStep(j))

NextRegistry ==
    \/ \E c \in Conns, j \in RegJobs, found \in BOOLEAN :
          websocket_job_updates_start(c, j, found)
    \/ \E c \in Conns : websocket_all_jobs_start(c)
    \/ \E c \in Conns, ok \in BOOLEAN : connect(c, ok)
    \/ \E c \in Conns : connect_raises(c)
    \/ \E c \in Conns : send_personal_message_returns(c)
    \/ \E c \in Conns, ok \in BOOLEAN : handler_refresh(c, ok)
    \/ \E c \in Conns : handler_ends(c)
    \/ \E j \in RegJobs : send_job_update(j)
    \/ \E k \in CallIds : send_job_update_next(k)
    \/ broadcast
    \/ \E k \in CallIds : broadcast_next(k)

\* the connection registry with its handlers and callers of its send paths
SpecRegistry == InitRegistry /\ [][NextRegistry]_vars

InitRouting ==
    /\ jobs = << >>
    /\ nextJobId = 1
    /\ task = [j \in JobIds |-> NoTask]
    /\ tavily_key = TRUE
    /\ response = [op |-> "none", id |-> 0, code |-> 0, ids |-> {}]
    /\ notifyCalls = [j \in JobIds |-> 0]
    /\ all_connections = {}
    /\ active_connections = << >>
    /\ handler = [c \in Conns |-> [pc |-> "new", job |-> 0, ok |-> FALSE, snapshots |-> 0, state |-> NoState]]
    /\ disconnected = {}
    /\ sendRaised = {}
    /\ calls = [k \in CallIds |-> NoCall]
    /\ outcome = NoOutcome
    /\ ncalls = 0
    /\ tracker = NoTracker
    /\ articles = {}
    /\ run = [r \in RunIds |-> NoRun]
    /\ embedded = {}
    /\ similarity = [p \in Pairs |-> 0]
    /\ connections = [l \in Links |-> 0]
    /\ linkRun = [threshold |-> 0, tick |-> FALSE, reversed |-> FALSE]
    /\ retry = NoRetry
    /\ research = NoResearch

\* the ids of the jobs that have subscribers when several jobs run
RoutedJobs == 1..(MaxRegJobs + 1)

NextRouting ==
    \/ \E c \in Conns, j \in RoutedJobs, found \in BOOLEAN :
          websocket_job_updates_start(c, j, found)
    \/ \E c \in Conns, ok \in BOOLEAN : connect(c, ok)
    \/ \E c \in Conns : connect_raises(c)
    \/ \E c \in Conns : send_personal_message_returns(c)
    \/ \E c \in Conns : handler_ends(c)
    \/ \E j \in RoutedJobs : send_job_update(j)
    \/ \E k \in CallIds : send_job_update_next(k)

\* subscribers of several jobs and the per-job send path
SpecRouting == InitRouting /\ [][NextRouting]_vars

InitTracker ==
    /\ jobs = << >>
    /\ nextJobId = 1
    /\ task = [j \in JobIds |-> NoTask]
    /\ tavily_key = TRUE
    /\ response = [op |-> "none", id |-> 0, code |-> 0, ids |-> {}]
    /\ notifyCalls = [j \in JobIds |-> 0]
    /\ all_connections = {}
    /\ active_connections = << >>
    /\ handler = [c \in Conns |-> [pc |-> "new", job |-> 0, ok |-> FALSE, snapshots |-> 0, state |-> NoState]]
    /\ disconnected = {}
    /\ sendRaised = {}
    /\ calls = [k \in CallIds |-> NoCall]
    /\ outcome = NoOutcome
    /\ ncalls = 0
    /\ tracker = NoTracker
    /\ articles = {}
    /\ run = [r \in RunIds |-> NoRun]
    /\ embedded = {}
    /\ similarity = [p \in Pairs |-> 0]
    /\ connections = [l \in Links |-> 0]
    /\ linkRun = [threshold |-> 0, tick |-> FALSE, reversed |-> FALSE]
    /\ retry = NoRetry
    /\ research = NoResearch

Progresses == {ProgressAfterIngestion, ProgressCompleted}

NextTracker ==
    \/ ingest_topic_async
    \/ \E j \in JobIds : run_topic_ingestion_job_start(j)
    \/ \E c \in Conns, j \in RegJobs :
          websocket_job_updates_start(c, j, RowExists(j))
    \/ \E c \in Conns, ok \in BOOLEAN : connect(c, ok)
    \/ \E c \in Conns : connect_raises(c)
    \/ \E c \in Conns : send_personal_message_returns(c)
    \/ \E c \in Conns, ok \in BOOLEAN : handler_refresh(c, ok)
    \/ \E c \in Conns : handler_ends(c)
    \/ \E j \in JobIds \cap RegJobs, p \in Progresses \cup {NoField} : update_job(j, p)
    \/ \E j \in JobIds \cap RegJobs, p \in Progresses : update_job_commit_raises(j, p)
    \/ \E k \in CallIds : send_job_update_next(k)

\* a running job that reports its progress through JobTracker.update_job
\* while subscribers of the job come and go
SpecTracker == InitTracker /\ [][NextTracker]_vars

InitIngestion ==
    /\ jobs = << >>
    /\ nextJobId = 1
    /\ task = [j \in JobIds |-> NoTask]
    /\ tavily_key \in BOOLEAN
    /\ response = [op |-> "none", id |-> 0, code |-> 0, ids |-> {}]
    /\ notifyCalls = [j \in JobIds |-> 0]
    /\ all_connections = {}
    /\ active_connections = << >>
    /\ handler = [c \in Conns |-> [pc |-> "new", job |-> 0, ok |-> FALSE, snapshots |-> 0, state |-> NoState]]
    /\ disconnected = {}
    /\ sendRaised = {}
    /\ calls = [k \in CallIds |-> NoCall]
    /\ outcome = NoOutcome
    /\ ncalls = 0
    /\ tracker = NoTracker
    /\ articles = {}
    /\ run = [r \in RunIds |-> NoRun]
    /\ embedded = {}
    /\ similarity = [p \in Pairs |-> 0]
    /\ connections = [l \in Links |-> 0]
    /\ linkRun = [threshold |-> 0, tick |-> FALSE, reversed |-> FALSE]
    /\ retry = NoRetry
    /\ research = NoResearch

NextIngestion ==
    \/ ingest_topic_async
    \/ \E j \in JobIds : run_topic_ingestion_job_start(j)
    \/ \E r \in RunIds : ingest_topic_call(r)
    \/ \E r \in RunIds, cands \in Candidates : search_web_returns(r, cands)
    \/ \E r \in RunIds, transient \in BOOLEAN : search_web_fails(r, transient)
    \/ \E r \in RunIds, long \in BOOLEAN : fetch_content_returns(r, long)
    \/ \E r \in RunIds, transient \in BOOLEAN : fetch_content_fails(r, transient)
    \/ \E r \in RunIds : process_article_content_returns(r)
    \/ \E r \in RunIds : process_article_content_raises(r)
    \/ \E r \in RunIds : item_handler_raises(r)
    \/ \E j \in JobIds : await_ingest_topic_raises(j)
    \/ \E j \in JobIds : await_ingest_topic_returns(j)
    \/ \E j \in JobIds : run_job_except_handler(j)

\* topic ingestion, result by result: the synchronous endpoint and the
\* background jobs, whose calls interleave at their awaits
SpecIngestion == InitIngestion /\ [][NextIngestion]_vars

InitConnections ==
    /\ jobs = << >>
    /\ nextJobId = 1
    /\ task = [j \in JobIds |-> NoTask]
    /\ tavily_key = TRUE
    /\ response = [op |-> "none", id |-> 0, code |-> 0, ids |-> {}]
    /\ notifyCalls = [j \in JobIds |-> 0]
    /\ all_connections = {}
    /\ active_connections = << >>
    /\ handler = [c \in Conns |-> [pc |-> "new", job |-> 0, ok |-> FALSE, snapshots |-> 0, state |-> NoState]]
    /\ disconnected = {}
    /\ sendRaised = {}
    /\ calls = [k \in CallIds |-> NoCall]
    /\ outcome = NoOutcome
    /\ ncalls = 0
    /\ tracker = NoTracker
    /\ articles = {}
    /\ run = [r \in RunIds |-> NoRun]
    /\ embedded = {}
    /\ similarity \in [Pairs -> Levels]
    /\ connections = [l \in Links |-> 0]
    /\ linkRun = [threshold |-> 0, tick |-> FALSE, reversed |-> FALSE]
    /\ retry = NoRetry
    /\ research = NoResearch

NextConnections ==
    \/ \E a \in ArticleIds : generate_embeddings_task(a)
    \/ \E o \in Orders(embedded) : \E threshold \in Levels :
          compute_connections_task(threshold, o)

\* the embeddings of the articles and the runs of compute_connections_task;
\* the stored vectors come from one embedding model (they parse, have one
\* dimension and are not zero), so every pair has a similarity, which is
\* fixed since an embedding is never regenerated
SpecConnections == InitConnections /\ [][NextConnections]_vars

InitRetry ==
    /\ jobs = << >>
    /\ nextJobId = 1
    /\ task = [j \in JobIds |-> NoTask]
    /\ tavily_key = TRUE
    /\ response = [op |-> "none", id |-> 0, code |-> 0, ids |-> {}]
    /\ notifyCalls = [j \in JobIds |-> 0]
    /\ all_connections = {}
    /\ active_connections = << >>
    /\ handler = [c \in Conns |-> [pc |-> "new", job |-> 0, ok |-> FALSE, snapshots |-> 0, state |-> NoState]]
    /\ disconnected = {}
    /\ sendRaised = {}
    /\ calls = [k \in CallIds |-> NoCall]
    /\ outcome = NoOutcome
    /\ ncalls = 0
    /\ tracker = NoTracker
    /\ articles = {}
    /\ run = [r \in RunIds |-> NoRun]
    /\ embedded = {}
    /\ similarity = [p \in Pairs |-> 0]
    /\ connections = [l \in Links |-> 0]
    /\ linkRun = [threshold |-> 0, tick |-> FALSE, reversed |-> FALSE]
    /\ retry = NoRetry
    /\ research = NoResearch

NextRetry ==
    \/ retry_with_backoff_call
    \/ retry_func_returns
    \/ \E e \in Errors : retry_func_raises(e)
    \/ retry_sleep_returns

\* one _retry_with_backoff call around a function whose attempts return
\* or raise
SpecRetry == InitRetry /\ [][NextRetry]_vars

InitResearch ==
    /\ jobs = << >>
    /\ nextJobId = 1
    /\ task = [j \in JobIds |-> NoTask]
    /\ tavily_key \in BOOLEAN
    /\ response = [op |-> "none", id |-> 0, code |-> 0, ids |-> {}]
    /\ notifyCalls = [j \in JobIds |-> 0]
    /\ all_connections = {}
    /\ active_connections = << >>
    /\ handler = [c \in Conns |-> [pc |-> "new", job |-> 0, ok |-> FALSE, snapshots |-> 0, state |-> NoState]]
    /\ disconnected = {}
    /\ sendRaised = {}
    /\ calls = [k \in CallIds |-> NoCall]
    /\ outcome = NoOutcome
    /\ ncalls = 0
    /\ tracker = NoTracker
    /\ articles = {}
    /\ run = [r \in RunIds |-> NoRun]
    /\ embedded = {}
    /\ similarity = [p \in Pairs |-> 0]
    /\ connections = [l \in Links |-> 0]
    /\ linkRun = [threshold |-> 0, tick |-> FALSE, reversed |-> FALSE]
    /\ retry = NoRetry
    /\ research = NoResearch

NextResearch ==
    \/ research_topic_gather
    \/ research_search_web_begins
    \/ \E created \in 0..MaxItems, errors \in 0..MaxItems :
          research_search_web_returns(created, errors)
    \/ research_search_youtube_begins
    \/ \E videos \in VideoLists : search_videos_returns(videos)
    \/ \E o \in VideoOutcomes : ingest_youtube_video_returns(o)
    \/ research_topic_aggregates

\* one research_topic call with its two gathered branches
SpecResearch == InitResearch /\ [][NextResearch]_vars

\* ====================================================================
\* Properties of the job store (SpecJobs)
\* ====================================================================
AllowedStatusChanges ==
    {<<"pending", "running">>, <<"running", "completed">>, <<"running", "failed">>}

\* C1: the persisted status of a job changes only along
\* pending -> running -> completed or pending -> running -> failed: a row is
\* inserted as pending, every change of status is one of the three allowed
\* steps, so nothing leaves completed or failed and nothing skips running.
StatusStateMachine ==
    [][\A j \in JobIds :
         /\ (j \notin DOMAIN jobs /\ j \in DOMAIN jobs')
               => jobs'[j].status = "pending"
         /\ (j \in DOMAIN jobs /\ j \in DOMAIN jobs'
                               /\ jobs'[j].status # jobs[j].status)
               => <<jobs[j].status, jobs'[j].status>> \in AllowedStatusChanges]_vars

\* C1: a delete request was refused while the job ran and the exception
\* handler of its task then marked it failed
StatusStateMachineWitness ==
    \E j \in DOMAIN jobs :
        /\ jobs[j].status = "failed"
        /\ task[j].pc = "done"
        /\ response = [op |-> "delete", id |-> j, code |-> 400, ids |-> {}]

\* C2: at every persisted state of a job progress is an integer of 0..100,
\* and no step of a job lowers it (the value of a pending row is the default
\* of the Job model, JobDefaultProgress).
ProgressBoundedMonotone ==
    /\ [](\A j \in DOMAIN jobs : jobs[j].progress \in 0..100)
    /\ [][\A j \in JobIds :
            (j \in DOMAIN jobs /\ j \in DOMAIN jobs')
               => jobs'[j].progress >= jobs[j].progress]_vars

\* C2: a research job went through the three checkpoints and completed
ProgressWitness ==
    \E j \in DOMAIN jobs :
        /\ jobs[j].job_type = "topic_research"
        /\ jobs[j].status = "completed"
        /\ jobs[j].progress = ProgressCompleted
        /\ jobs[j].created_items > 0
        /\ task[j].errors = 0

\* C3: a delete request for a running job answers 400 and leaves the table
\* as it was; for a job in any other status it answers 200 and the row is
\* gone; a row that is gone never comes back, and what get and list answer
\* is taken from the table, so they no longer return it.
DeleteContract ==
    [][/\ \A j \in DOMAIN jobs :
             (response' # response /\ response'.op = "delete" /\ response'.id = j)
                => IF jobs[j].status = "running"
                     THEN response'.code = 400 /\ jobs' = jobs
                     ELSE response'.code = 200 /\ j \notin DOMAIN jobs'
                                               /\ jobs' = DeleteRow(j)
       /\ \A j \in JobIds :
             (j < nextJobId /\ j \notin DOMAIN jobs) => j \notin DOMAIN jobs'
       /\ (response' # response /\ response'.op \in {"get", "list"})
             => response'.ids \subseteq DOMAIN jobs']_vars

\* C3: a job that was created is answered 404 by get: it was deleted
DeleteWitness ==
    /\ response.op = "get"
    /\ response.code = 404
    /\ response.id < nextJobId
    /\ task[response.id].pc = "done"

\* C6: every committed change of a job row comes with one invocation of the
\* notifier (manager.send_job_progress) for that job.
NotifierInvokedOnEveryChange ==
    [][\A j \in JobIds :
         (j \in DOMAIN jobs /\ j \in DOMAIN jobs' /\ jobs'[j] # jobs[j])
            => notifyCalls'[j] = notifyCalls[j] + 1]_vars

\* ====================================================================
\* Properties of the connection registry (SpecRegistry)
\* ====================================================================
\* C4: when a send raises inside a send_job_update or broadcast invocation,
\* the other targeted connections still get the message and the failing
\* connection has left the registry when the invocation is over.
FailureIsolation ==
    /\ outcome.missedOnRaise = {}
    /\ outcome.leftover = {}

\* C5: a connect or disconnect made while a send loop is suspended neither
\* makes the loop raise nor makes it skip a connection that stayed
\* subscribed for the whole invocation.
SendLoopSurvivesChurn ==
    /\ ~outcome.threw
    /\ outcome.missed = {}

\* C7: a job subscriber gets one job_update for every send_job_update of its
\* job made while it is subscribed.
SubscriberGetsEveryUpdate ==
    \A c \in Conns : handler[c].job # 0 => c \notin outcome.missed

\* a send on connection c starts in this step of invocation k
SendStarts(k, c) ==
    /\ calls'[k].pc \in {"job", "bcast"}
    /\ calls'[k].cur = c
    /\ calls[k].pc = "unused" \/ calls'[k].visited # calls[k].visited

\* C8 (as stated): once disconnect(conn) has returned no invocation of
\* send_job_update or broadcast starts a send on conn.
NoSendAfterDisconnect ==
    [][\A k \in CallIds, c \in Conns :
         SendStarts(k, c) => c \notin disconnected]_vars

\* C8 (amended): once disconnect(conn) has returned, no send_job_update
\* invocation and no broadcast invocation that begins afterwards starts a
\* send on conn; only a broadcast that was already inside its loop, and
\* that copied conn when it began, still does.
NoSendAfterDisconnectButOldBroadcast ==
    [][\A k \in CallIds, c \in Conns :
         (SendStarts(k, c) /\ c \in disconnected)
            => /\ calls[k].pc = "bcast"
               /\ c \in calls[k].start]_vars

\* C8: a send_job_update loop began with conn subscribed, conn was
\* disconnected and a newcomer subscribed while the loop was suspended, and
\* the loop went on to the newcomer without sending to conn
NoSendAfterDisconnectWitness ==
    \E k \in CallIds, c \in disconnected :
        /\ calls[k].pc = "job"
        /\ c \in calls[k].start
        /\ c \notin calls[k].visited
        /\ calls[k].cur \notin calls[k].start \cup disconnected
        /\ calls[k].visited \cap disconnected = {}

\* C9: a connection on which a send has raised is in neither
\* all_connections nor any per-job set once that send path has returned.
RaisedConnectionsDropped ==
    \A c \in sendRaised : c \notin Registered(Registry)

\* C10: a connection of the global group is sent the update of every
\* send_job_update made while it is connected.
GlobalGroupGetsEveryUpdate == outcome.missedGlobals = {}

\* C11: the registry leaks nothing: no job key ever maps to an empty
\* subscriber set, and once every handler is over and no send loop runs,
\* all_connections is empty and active_connections has no key left.
RegistryLeaksNothing ==
    /\ \A j \in DOMAIN active_connections : active_connections[j] # {}
    /\ ( /\ \A c \in Conns : handler[c].pc \in {"new", "closed"}
         /\ \A k \in CallIds : calls[k].pc \notin {"job", "bcast"} )
          => all_connections = {} /\ DOMAIN active_connections = {}

\* C14: a research job whose branches produced something ends completed,
\* and one whose branches produced nothing (both returned nothing or
\* raised) ends failed.
ResearchOutcomeFollowsResults ==
    \A j \in DOMAIN jobs :
        (jobs[j].job_type = "topic_research" /\ task[j].pc = "done")
           => IF task[j].created > 0
                THEN jobs[j].status = "completed"
                ELSE jobs[j].status = "failed"

\* C20: in every persisted job state result is set only on a completed job,
\* error_message only on a failed job, and never both (an unset result is
\* << >>, an unset error_message is None: the defaults of the Job model).
ResultErrorExclusive ==
    \A j \in DOMAIN jobs :
        /\ jobs[j].result # << >> => jobs[j].status = "completed"
        /\ jobs[j].error_message # None => jobs[j].status = "failed"
        /\ ~(jobs[j].result # << >> /\ jobs[j].error_message # None)

\* C20: a research job completed although its post-processing raised: the
\* error is inside the result and error_message stays unset
ResultErrorExclusiveWitness ==
    \E j \in DOMAIN jobs :
        /\ jobs[j].status = "completed"
        /\ jobs[j].result # << >>
        /\ jobs[j].result[1].errors > 0
        /\ jobs[j].error_message = None

\* C17: two connections subscribed to the same job during the whole of a
\* send_job_update get the same job_update messages: no invocation delivers
\* to one of them and not to the other.
SameUpdatesForAllSubscribers == ~outcome.split

\* ====================================================================
\* Properties of JobTracker.update_job (SpecTracker)
\* ====================================================================
\* C18: update_job never raises to its caller because of a delivery failure:
\* whatever the send path does (a send raising, or the send loop itself
\* throwing), the exception is swallowed and the field change that update_job
\* committed stays in the job row.
UpdateJobSwallowsSendFailures ==
    /\ tracker.pc # "raised"
    /\ tracker.pc \in {"sending", "returned"}
          => /\ RowExists(tracker.job)
             /\ jobs[tracker.job].progress = tracker.progress

\* update_job has returned although the send loop it awaited threw
UpdateJobSwallowsWitness ==
    /\ tracker.pc = "returned"
    /\ outcome.threw
    /\ jobs[tracker.job].progress = ProgressAfterIngestion

\* ====================================================================
\* Properties of topic ingestion (SpecIngestion)
\* ====================================================================
\* the results of a call whose content fetch raised
FetchRaised(st) == Cardinality({i \in DOMAIN st.log : st.log[i] = "fetch_raised"})

\* the search returned n results with distinct URLs, and every result the
\* loop dealt with either raised during its content fetch or was created
OnlyFetchFailures(st) ==
    /\ st.acquisition = "ok"
    /\ \A i \in DOMAIN st.cands : st.cands[i] # NoUrl
    /\ \A i, k \in DOMAIN st.cands : i # k => st.cands[i] # st.cands[k]
    /\ \A i \in DOMAIN st.log : st.log[i] \in {"created", "fetch_raised"}

\* C12: in a topic-ingestion job whose search returns n candidates with
\* distinct URLs that are not stored, of which k raise during the content
\* fetch while the others succeed, every candidate is processed (also those
\* after a failing one) and the job ends completed with k errors in its
\* result and created_items = n - k.
FetchFailuresAreIsolated ==
    \A j \in JobIds :
        (task[j].pc = "done" /\ RowExists(j) /\ OnlyFetchFailures(run[j]))
           => /\ Len(run[j].log) = Len(run[j].cands)
              /\ jobs[j].status = "completed"
              /\ jobs[j].result[1].errors = FetchRaised(run[j])
              /\ jobs[j].created_items = Len(run[j].cands) - FetchRaised(run[j])
              /\ jobs[j].processed_items = Len(run[j].cands)

\* a finished job whose first result failed in the fetch and whose second
\* result was created
FetchFailuresAreIsolatedWitness ==
    \E j \in JobIds :
        /\ task[j].pc = "done" /\ RowExists(j) /\ OnlyFetchFailures(run[j])
        /\ run[j].log = <<"fetch_raised", "created">>
        /\ jobs[j].created_items = 1

\* C13: whenever the acquisition stage of a topic-ingestion job throws (the
\* key is missing, or the search fails after its retries), the job ends
\* failed with an error message and without a result.
AcquisitionFailureFailsJob ==
    \A j \in JobIds :
        ( /\ task[j].pc = "done" /\ RowExists(j)
          /\ run[j].acquisition \in {"no_key", "raised"} )
           => /\ jobs[j].status = "failed"
              /\ jobs[j].error_message # None
              /\ jobs[j].result = << >>

\* C15: a URL ingested twice is stored once, and its second occurrence is
\* counted as updated: no call records an error for a URL that another call
\* stored while it was working on it.
DuplicateUrlCountedAsUpdated ==
    \A r \in RunIds : \A i \in DOMAIN run[r].log :
        (run[r].cands[i] \in articles /\ run[r].log[i] # "created")
           => run[r].log[i] \in {"updated", "fetch_raised", "short",
                                 "process_raised", "aborted"}

\* ====================================================================
\* Properties of the connection table (SpecConnections)
\* ====================================================================
\* the rows that link the two articles of p, in either direction
RowsOf(conn, p) ==
    LET a == CHOOSE x \in p : TRUE
        b == CHOOSE y \in p \ {a} : TRUE
    IN conn[<<a, b>>] + conn[<<b, a>>]

\* the same for the pair written as a < b
RowsBetween(conn, a, b) == conn[<<a, b>>] + conn[<<b, a>>]

RunningJobsTerminate ==
    \A j \in JobIds :
        (RowExists(j) /\ jobs[j].status = "running")
           ~> (RowExists(j) /\ jobs[j].status \in Terminal)

\* C19, amended: under fair scheduling every job marked running eventually
\* is completed or failed, unless the except handler that has to write
\* "failed" raises itself; such a job stays running for ever.
RunningJobsTerminateUnlessHandlerRaises ==
    \A j \in JobIds :
        (RowExists(j) /\ jobs[j].status = "running")
           ~> \/ RowExists(j) /\ jobs[j].status \in Terminal
              \/ task[j].pc = "crashed"

\* a job that was running has been marked failed by the except handler, and
\* its task is over
RunningJobsTerminateWitness ==
    \E j \in JobIds :
        /\ RowExists(j) /\ task[j].pc = "done"
        /\ jobs[j].job_type = "topic_research"
        /\ jobs[j].status = "failed" /\ jobs[j].error_message # None

\* C29: in the response of ingest_topic every candidate the loop took is
\* accounted for once: on every return path after a search that returned a
\* non-empty list, articles_processed = articles_created + articles_updated
\* + len(errors), and articles_created <= articles_processed.
ResponseCountsBalance ==
    \A r \in RunIds :
        (run[r].pc = "returned" /\ run[r].acquisition = "ok")
           => /\ run[r].articles_processed =
                    run[r].articles_created + run[r].articles_updated + run[r].errors
              /\ run[r].articles_created <= run[r].articles_processed

\* a returned response that counts a created, an updated and a failed
\* candidate between two calls, one of them ended by the outer except
ResponseCountsBalanceWitness ==
    /\ \A r \in RunIds : run[r].pc = "returned" /\ run[r].acquisition = "ok"
    /\ \E r \in RunIds : run[r].articles_updated > 0 /\ run[r].articles_created > 0
    /\ \E r \in RunIds : \E i \in DOMAIN run[r].log : run[r].log[i] = "aborted"

\* ====================================================================
\* Properties of _retry_with_backoff (SpecRetry)
\* ====================================================================
\* a transient error: a connect error, a timeout, HTTP 429 or HTTP 5xx
Transient(e) ==
    \/ e.type \in {"ConnectError", "TimeoutException", "ReadTimeout"}
    \/ e.type = "HTTPStatusError" /\ (e.status = 429 \/ e.status \in 500..599)

\* the waits after the first n failed attempts: min(1 * 2^k, 10), k = 0..n-1
Backoff(n) == [i \in 1..n |-> Min(Pow2(i - 1), 10)]

\* C24: a call that fails with a transient error on every attempt makes
\* exactly MAX_RETRIES = 3 attempts, waits min(1 * 2^k, 10) seconds after
\* the k-th failed attempt (k = 0, 1), does not wait after the last one and
\* raises the last exception; a call that succeeds on attempt j returns
\* after exactly j attempts.
RetryAttemptsAndDelays ==
    /\ ( /\ retry.pc = "raised"
         /\ \A i \in DOMAIN retry.seen : Transient(retry.seen[i]) )
          => /\ retry.calls = 3
             /\ retry.delays = Backoff(2)
             /\ retry.exc = retry.seen[3]
    /\ retry.pc = "returned"
          => /\ retry.calls = Len(retry.seen) + 1
             /\ retry.delays = Backoff(Len(retry.seen))

\* C25: an error is retried if and only if it is transient: connect
\* errors, timeouts, HTTP 429 and every HTTP 5xx are retried; a 4xx other
\* than 429 and any other exception are raised after the attempt that
\* raised them, with no delay.
RetriedIffTransient ==
    /\ \A i \in DOMAIN retry.seen :
          (i < Len(retry.seen) \/ retry.pc # "raised") => Transient(retry.seen[i])
    /\ (retry.pc = "raised" /\ Len(retry.seen) < MAX_RETRIES)
          => /\ ~Transient(retry.exc)
             /\ Len(retry.delays) = Len(retry.seen) - 1

\* ====================================================================
\* Error propagation (SpecJobs)
\* ====================================================================
\* C21: every per-item and per-stage error that occurs while a job runs is
\* an entry of the errors list of its terminal result: the list of a
\* completed job holds the errors its stages reported and also those that
\* a stage caught itself.
NoErrorOnlyLogged ==
    \A j \in DOMAIN jobs :
        (jobs[j].status = "completed" /\ task[j].pc = "done")
           => jobs[j].result[1].errors = task[j].errors + task[j].logged

\* ====================================================================
\* More properties of the connection registry (SpecRegistry)
\* ====================================================================
\* C22: whenever a subscription handler has ended, for whatever reason, its
\* connection is in neither all_connections nor any per-job subscriber set.
EndedHandlerLeavesNoConnection ==
    \A c \in Conns :
        handler[c].pc = "closed"
           => /\ c \notin all_connections
              /\ \A j \in DOMAIN active_connections : c \notin active_connections[j]

\* the handlers of a job subscriber and of a global subscriber have ended
\* after being registered, one of them after a send to it had raised
EndedHandlerWitness ==
    \E c, d \in disconnected :
        /\ handler[c].pc = "closed" /\ handler[c].job # 0 /\ c \in sendRaised
        /\ handler[d].pc = "closed" /\ handler[d].job = 0

\* C27: every job_update that send_job_update sends for a job goes to a
\* connection whose handler subscribed to that very job, so a connection
\* subscribed to job J is never sent a job_update of another job.
UpdatesReachOnlyOwnSubscribers ==
    \A k \in CallIds :
        calls[k].pc = "job" => handler[calls[k].cur].job = calls[k].job
UpdatesReachOnlyOwnWitness ==
    \E k \in CallIds : \E c \in Conns :
        /\ calls[k].pc = "job"
        /\ calls[k].visited # {}
        /\ handler[c].pc = "idle" /\ handler[c].job \notin {0, calls[k].job}
        /\ handler[c].job \in DOMAIN active_connections
        /\ c \in active_connections[handler[c].job]
        /\ disconnected # {}

\* ====================================================================
\* More properties of JobTracker.update_job (SpecTracker)
\* ====================================================================
\* C28: update_job pushes only after the commit: a step that starts a
\* job_update is a step of a call that supplied a field and the value pushed
\* is the one the job row holds; a call whose commit raises starts no push
\* and leaves the row as it was; a call that supplies no field changes
\* neither the row nor the send path.
PushOnlyAfterCommit ==
    [][ /\ ncalls' # ncalls
           => /\ tracker'.supplied
              /\ tracker'.call = ncalls'
              /\ tracker'.job \in DOMAIN jobs'
              /\ jobs'[tracker'.job].progress = tracker'.progress
        /\ (tracker.pc # "commit_raised" /\ tracker'.pc = "commit_raised")
           => /\ ncalls' = ncalls /\ calls' = calls
              /\ jobs' = jobs /\ notifyCalls' = notifyCalls
        /\ (tracker' # tracker /\ ~tracker'.supplied)
           => /\ ncalls' = ncalls /\ calls' = calls
              /\ jobs' = jobs /\ notifyCalls' = notifyCalls ]_vars

\* a push of the committed progress is on its way to a subscriber
PushOnlyAfterCommitWitness ==
    /\ tracker.pc = "sending" /\ tracker.supplied
    /\ calls[tracker.call].pc = "job"
    /\ calls[tracker.call].job = tracker.job
    /\ jobs[tracker.job].progress = ProgressCompleted
    /\ tracker.progress = ProgressCompleted

\* ====================================================================
\* More properties of the job store (SpecJobs)
\* ====================================================================
\* C30: a job deleted while pending is never executed or resurrected: the
\* step its task takes when it finds no record ends the task, changes no job
\* record and no article, and leaves the counts of the task at zero; the
\* record never comes back, and every later get of the id answers 404 and
\* every later list leaves the id out.
DeletedPendingNeverRuns ==
    [][ \A j \in JobIds :
          /\ (~RowExists(j) /\ task[j].pc = "scheduled")
                => /\ j \notin DOMAIN jobs'
                   /\ task'[j] \in {task[j], [task[j] EXCEPT !.pc = "done"]}
                   /\ task'[j] # task[j] => (jobs' = jobs /\ articles' = articles)
          /\ (~RowExists(j) /\ task[j].pc = "done" /\ ~task[j].started)
                => /\ j \notin DOMAIN jobs'
                   /\ task'[j] = task[j]
                   /\ response' # response
                         => /\ j \notin response'.ids
                            /\ (response'.op = "get" /\ response'.id = j)
                                  => response'.code = 404 ]_vars

\* the task of a job that was deleted while pending has returned and a get
\* of the job has answered 404
DeletedPendingWitness ==
    \E j \in JobIds :
        /\ ~RowExists(j)
        /\ task[j].pc = "done" /\ ~task[j].started
        /\ task[j].kind = "topic_research"
        /\ response = [op |-> "get", id |-> j, code |-> 404, ids |-> {}]

\* C26: the snapshot a new subscriber is sent carries the state of the job
\* as of the moment its connection is registered: at the step that registers
\* the connection and builds the snapshot, the status and the progress the
\* handler holds are those of the job row.  (A push carries what its own
\* commit stored, so a change committed before the registration can reach
\* the connection through the snapshot only.)
SnapshotCurrentAtRegistration ==
    [][ \A c \in Conns :
          ( /\ handler[c].pc = "accepting" /\ handler'[c].pc = "snapshot"
            /\ handler'[c].job \in DOMAIN jobs' )
             => handler'[c].state =
                   [status |-> jobs'[handler'[c].job].status,
                    progress |-> jobs'[handler'[c].job].progress] ]_vars

\* ====================================================================
\* Properties of ResearchService.research_topic (SpecResearch)
\* ====================================================================
\* C23: the two branches of research_topic fail independently: when the
\* call has returned, both branches are over (each has returned or raised),
\* the video branch went through every video of its search whatever the
\* web branch did, and the result holds the counts of the branches that
\* returned and the errors of both, a raised branch counting as one error.
BranchesFailIndependently ==
    research.pc = "returned"
       => /\ research.web.pc \in {"returned", "raised"}
          /\ research.yt.pc = "returned"
          /\ research.yt.i > Len(research.yt.videos)
          /\ research.result.youtube_videos_created = research.yt.created
          /\ research.result.web_articles_created =
                (IF research.web.pc = "raised" THEN 0 ELSE research.web.created)
          /\ research.result.total_articles_created =
                research.result.web_articles_created + research.yt.created
          /\ research.result.errors =
                (IF research.web.pc = "raised" THEN 1 ELSE research.web.errors)
                   + research.yt.errors
          /\ research.result.web_failed = (research.web.pc = "raised")

\* the web branch raised, the video branch then ingested its videos, and
\* the result holds the error of the one and the count of the other
BranchesFailIndependentlyWitness ==
    /\ research.pc = "returned"
    /\ research.web.pc = "raised"
    /\ research.yt.created = MaxCands
    /\ research.result.success
    /\ research.result.errors = 1
    /\ research.result.web_failed

====
